---- MODULE Spec2Model ----
(***************************************************************************)
(* Model of the Cyber-Security Assistant service (src/unnamed/part_000):    *)
(* the destructiveness classifier, the audit logger, the single-item gate  *)
(* `recommend` and the batch orchestrator `batch`.                         *)
(*                                                                         *)
(* Texts are sequences of one-character strings, so that lower(), split()  *)
(* and strip() are computed as Python computes them.  The generation       *)
(* backend (ollama) is an oracle: each call either returns a content text  *)
(* or raises.  Both endpoints are coroutines without a suspension point    *)
(* (the backend call is synchronous and batch awaits recommend directly),  *)
(* so one call of recommend runs to completion as one step.                *)
(***************************************************************************)
EXTENDS Integers, Sequences, FiniteSets, TLC

\* ------------------------------------------------------------------ bounds
\* Total number of decision attempts (calls of recommend) in one behaviour.
MaxAttempts == 3
\* Largest number of threats in one batch request.
MaxBatch == 3
\* Total number of lines two concurrent writers log in one behaviour.
MaxLines == 5
\* Largest number of pieces a text put to the classifier is made of.
MaxPieces == 3

\* ------------------------------------------------------------------ inputs
\* Python's None, for the Optional[str] notes field.
None == "<None>"

ThreatIds == {"malware-001", "malware-002"}

\* A value of additional_info that json.dumps cannot encode (a Python set).
\* It cannot come out of a parsed JSON body, only out of a Threat object built
\* in Python and handed to recommend directly.
Unserializable == "<set>"

\* class Threat as it arrives in a JSON request body: threat_id, and the
\* optional fields absent (additional_info stands for all of them).
Threat == [threat_id : ThreatIds, additional_info : {None}]

\* Threat objects built in Python, whose additional_info can hold any value.
DirectThreat == [threat_id : ThreatIds, additional_info : {None, Unserializable}]

\* Contents the stubbed backend can return (before .strip()).
TextKillIt == <<"K", "i", "l", "l", " ", "i", "t", "\n">>
TextScan == <<"s", "c", "a", "n">>
Contents == {TextKillIt, TextScan}

\* Exceptions the backend call can raise (str(exc)).
BackendErrors == {"timed out"}

\* Outcome of one backend call: content returned, or exception raised.
GenOutcomes ==
    [ok : {TRUE}, content : Contents, exc : {""}]
        \cup [ok : {FALSE}, content : {<<>>}, exc : BackendErrors]

\* ------------------------------------------------------------ str methods
UpperChars == <<"A", "B", "C", "D", "E", "F", "G", "H", "I", "J", "K", "L", "M",
                "N", "O", "P", "Q", "R", "S", "T", "U", "V", "W", "X", "Y", "Z">>
LowerChars == <<"a", "b", "c", "d", "e", "f", "g", "h", "i", "j", "k", "l", "m",
                "n", "o", "p", "q", "r", "s", "t", "u", "v", "w", "x", "y", "z">>

\* The characters str.split() and str.strip() treat as whitespace.
Whitespace == {" ", "\t", "\n", "\r", "\f"}

LowerChar(c) ==
    IF \E k \in 1..Len(UpperChars) : UpperChars[k] = c
    THEN LowerChars[CHOOSE k \in 1..Len(UpperChars) : UpperChars[k] = c]
    ELSE c

\* str.lower()
str_lower(s) == [k \in 1..Len(s) |-> LowerChar(s[k])]

\* Length of the leading run of non-whitespace characters of s.
RECURSIVE TokenLen(_)
TokenLen(s) ==
    IF s = <<>> \/ Head(s) \in Whitespace THEN 0 ELSE 1 + TokenLen(Tail(s))

\* str.split() without arguments: the whitespace-delimited tokens.
RECURSIVE str_split(_)
str_split(s) ==
    IF s = <<>> THEN <<>>
    ELSE IF Head(s) \in Whitespace THEN str_split(Tail(s))
    ELSE LET n == TokenLen(s)
         IN  <<SubSeq(s, 1, n)>> \o str_split(SubSeq(s, n + 1, Len(s)))

RECURSIVE str_lstrip(_)
str_lstrip(s) ==
    IF s # <<>> /\ Head(s) \in Whitespace THEN str_lstrip(Tail(s)) ELSE s

RECURSIVE str_rstrip(_)
str_rstrip(s) ==
    IF s # <<>> /\ s[Len(s)] \in Whitespace
    THEN str_rstrip(SubSeq(s, 1, Len(s) - 1))
    ELSE s

\* str.strip()
str_strip(s) == str_rstrip(str_lstrip(s))

\* ---------------------------------------------------------- prompt builder
PromptError == "Object of type set is not JSON serializable"

\* _generate_prompt: json.dumps(threat_info) goes into the user message, or
\* raises TypeError on a value it cannot encode.
_generate_prompt(threat_info) ==
    IF threat_info.additional_info = Unserializable
    THEN [ok |-> FALSE, exc |-> PromptError, user |-> threat_info]
    ELSE [ok |-> TRUE, exc |-> "", user |-> threat_info]

\* ------------------------------------------------------------- classifier
destructive_terms ==
    { <<"d", "e", "l", "e", "t", "e">>,
      <<"r", "e", "m", "o", "v", "e">>,
      <<"k", "i", "l", "l">>,
      <<"u", "n", "i", "n", "s", "t", "a", "l", "l">>,
      <<"e", "r", "a", "s", "e">> }

\* Variant: the text is not lowercased before it is split.
_is_destructive_case_sensitive(recommendation) ==
    LET tokens == str_split(recommendation)
        words == {tokens[k] : k \in 1..Len(tokens)}
    IN  (words \cap destructive_terms) # {}

\* words = set(recommendation.lower().split()); bool(words & destructive_terms)
_is_destructive(recommendation) ==
    LET tokens == str_split(str_lower(recommendation))
        words == {tokens[k] : k \in 1..Len(tokens)}
    IN  (words \cap destructive_terms) # {}

\* ------------------------------------------------------------ audit logger
\* One formatted message handed to `logger`.  The JSON text of an entry is
\* kept as its fields; the other messages keep the values interpolated
\* into their f-string.
Message(levelname, kind, threat_id, text, destructive, approved, notes, detail) ==
    [levelname |-> levelname, kind |-> kind, threat_id |-> threat_id,
     recommendation |-> text, destructive |-> destructive,
     approved |-> approved, notes |-> notes, detail |-> detail]

\* _log_recommendation: logger.info(json.dumps(entry))
_log_recommendation(threat_id, recommendation, destructive, approved, notes) ==
    Message("INFO", "entry", threat_id, recommendation, destructive, approved,
            notes, "")

\* Variant: the file is opened with mode "w": every process writes at its
\* own offset, the end of what it has written itself, and not at the end of
\* the file.
logger_emit_own_offset(log, msgs, diskOk) ==
    LET own == Cardinality({k \in 1..Len(log) : \E m \in 1..Len(msgs) :
                                log[k].msg.threat_id = msgs[m].threat_id})
        new == [k \in 1..Len(msgs) |-> [msg |-> msgs[k], written |-> diskOk]]
    IN  SubSeq(log, 1, own) \o new \o SubSeq(log, own + Len(msgs) + 1, Len(log))

\* logging.FileHandler.emit: the record is written to audit.log, or, when the
\* write fails, Handler.handleError reports on stderr and the call returns
\* normally; nothing is raised to the caller of logger.info/warning/error.
logger_emit(log, msgs, diskOk) ==
    log \o [k \in 1..Len(msgs) |-> [msg |-> msgs[k], written |-> diskOk]]

\* The DecisionRecord carried by an entry line.
Entry(line) ==
    [threat_id |-> line.msg.threat_id,
     recommendation |-> line.msg.recommendation,
     destructive |-> line.msg.destructive,
     approved |-> line.msg.approved,
     notes |-> line.msg.notes]

IsEntry(line) == line.msg.kind = "entry"

\* ------------------------------------------------------------------- gate
\* Variant: the confirmation hook grants instead of refusing.
_ask_confirmation_grants(action, threat_id) ==
    [msg |-> Message("WARNING", "ask_confirmation", threat_id, action,
                     FALSE, FALSE, None, "Awaiting manual confirmation."),
     ret |-> TRUE]

\* _ask_confirmation: logs the request and refuses.
_ask_confirmation(action, threat_id) ==
    [msg |-> Message("WARNING", "ask_confirmation", threat_id, action,
                     FALSE, FALSE, None, "Awaiting manual confirmation."),
     ret |-> FALSE]

\* RecommendRequest(threat=..., confirm=...)
RecommendRequest(threat, confirm) == [threat |-> threat, confirm |-> confirm]

\* RecommendResponse / RecommendationResponse (same five fields).
RecommendResponse(threat_id, recommendation, destructive, approved, notes) ==
    [threat_id |-> threat_id, recommendation |-> recommendation,
     destructive |-> destructive, approved |-> approved, notes |-> notes]

NoResponse == RecommendResponse("", <<>>, FALSE, FALSE, None)

\* What a call of recommend leaves behind: the messages it logged, in order,
\* either the returned response (status 200) or the raised HTTPException, and
\* whether the classifier ran (classified) and what it answered (destructive).
GateResult(msgs, status, body, detail, classified, destructive) ==
    [msgs |-> msgs, status |-> status, body |-> body, detail |-> detail,
     classified |-> classified, destructive |-> destructive]

\* The outcome of the try block of recommend: the prompt builder's exception
\* when it raises (the backend is then not called), else the backend's outcome.
TryOutcome(prompt, gen) ==
    IF prompt.ok THEN gen ELSE [ok |-> FALSE, content |-> <<>>, exc |-> prompt.exc]

\* Variant: a failed backend call is repeated once.
BackendCalls_retry(prompt, gen) ==
    IF ~prompt.ok THEN 0 ELSE IF gen.ok THEN 1 ELSE 2

\* Number of ollama_client...create calls one run of the try block makes.
BackendCalls(prompt, gen) == IF prompt.ok THEN 1 ELSE 0

\* Variant: the except branch goes on with an empty recommendation.
ModelError_swallowed(tid, exc) ==
    GateResult(<<Message("ERROR", "model_error", tid, <<>>, FALSE, FALSE, None, exc),
                 _log_recommendation(tid, <<>>, FALSE, TRUE, None)>>,
               200, RecommendResponse(tid, <<>>, FALSE, TRUE, None), "",
               TRUE, FALSE)

\* except Exception as exc: logger.error(...); raise HTTPException(500, ...)
ModelError(tid, exc) ==
    GateResult(<<Message("ERROR", "model_error", tid, <<>>, FALSE, FALSE, None, exc)>>,
               500, NoResponse, "Model generation failed: " \o exc,
               FALSE, FALSE)

\* Variant: nothing is approved by default.
DefaultApproved_false == FALSE

\* approved = True  # safe by default
DefaultApproved == TRUE

\* Variant: the safety hook fires on confirmed requests instead.
NeedsConfirmation_inverted(destructive, confirm) == destructive /\ confirm

\* Variant: the safety hook ignores the confirm flag.
NeedsConfirmation_ignores_confirm(destructive, confirm) == destructive

\* if destructive and not request.confirm:
NeedsConfirmation(destructive, confirm) == destructive /\ ~confirm

\* (the source writes the dash as U+2013)
DenialNotes == "Destructive action denied - user / caller must confirm."
DenialDetail == "Destructive recommendation requires explicit confirmation."

\* recommend(request), with `gen` the outcome of the backend call it makes.
recommend(request, gen) ==
    LET tid == request.threat.threat_id
        tried == TryOutcome(_generate_prompt(request.threat), gen)
    IN
    IF ~tried.ok
    THEN ModelError(tid, tried.exc)
    ELSE
    LET recommendation == str_strip(tried.content)
        destructive == _is_destructive(recommendation)
    IN  IF NeedsConfirmation(destructive, request.confirm)
        THEN LET ask == _ask_confirmation(recommendation, tid)
                 approved == ask.ret
             IN  IF ~approved
                 THEN GateResult(
                         <<ask.msg,
                           _log_recommendation(tid, recommendation, destructive,
                                               approved, DenialNotes)>>,
                         400, NoResponse, DenialDetail, TRUE, destructive)
                 ELSE GateResult(
                         <<ask.msg,
                           _log_recommendation(tid, recommendation, destructive,
                                               approved, None)>>,
                         200,
                         RecommendResponse(tid, recommendation, destructive,
                                           approved, None),
                         "", TRUE, destructive)
        ELSE GateResult(
                <<_log_recommendation(tid, recommendation, destructive,
                                      DefaultApproved, None)>>,
                200,
                RecommendResponse(tid, recommendation, destructive,
                                  DefaultApproved, None),
                "", TRUE, destructive)

\* ----------------------------------------------------------- orchestrator
\* Variant: the batch submits its items as confirmed.
BatchConfirm_true == TRUE

\* single_request = RecommendRequest(threat=threat, confirm=False)
BatchConfirm == FALSE

\* A non-HTTP exception raised while the returned response is converted
\* into a report entry (RecommendationResponse(**response.dict())); "" when
\* the conversion succeeds.
UnexpectedErrors == {"out of memory"}
Faults == {""} \cup UnexpectedErrors

\* Variant: the placeholder loses the threat's id.
Placeholder_blank_id(threat_id, notes) ==
    RecommendResponse("", <<>>, FALSE, FALSE, notes)

\* The entry the except branches append for a failed item.
Placeholder(threat_id, notes) ==
    RecommendResponse(threat_id, <<>>, FALSE, FALSE, notes)

\* One iteration of `for threat in request.threats`: the gate's result, the
\* messages the orchestrator itself logs, and the entry appended to the report.
batch_item(threat, gen, fault) ==
    LET tid == threat.threat_id
        r == recommend(RecommendRequest(threat, BatchConfirm), gen)
    IN  IF r.status # 200
        THEN [gate |-> r,
              msgs |-> <<Message("WARNING", "batch_failed", tid, <<>>, FALSE,
                                 FALSE, None, r.detail)>>,
              entry |-> Placeholder(tid, "Failed: " \o r.detail)]
        ELSE IF fault # ""
        THEN [gate |-> r,
              msgs |-> <<Message("ERROR", "batch_unexpected", tid, <<>>, FALSE,
                                 FALSE, None, fault)>>,
              entry |-> Placeholder(tid, "Unexpected error: " \o fault)]
        ELSE [gate |-> r, msgs |-> <<>>, entry |-> r.body]

\* Variant: a failed item ends the loop.
NextItem_break(k, n, failed) == IF failed THEN n + 1 ELSE k + 1

\* The loop goes on to the next threat after every branch of the try.
NextItem(k, n, failed) == k + 1

\* ------------------------------------------------------------------ state
VARIABLES
    auditLog,        \* lines handed to the audit.log handler, in order
    calls,           \* every call of recommend so far, with what it returned
    diskOk,          \* whether a write to audit.log succeeds
    pc,              \* "idle", "batch" in the batch loop, "recommend" in a waiting call
    threats,         \* request.threats of the batch request
    i,               \* position of the batch loop in threats
    report_entries,  \* the report built so far
    pending,         \* the backend call a handler is waiting on, if any
    probe,           \* a text put to _is_destructive on its own, and the answer
    writers          \* per process sharing audit.log: lines still to log, lines logged

vars == <<auditLog, calls, diskOk, pc, threats, i, report_entries, pending,
          probe, writers>>

\* No backend call is in flight.
NoPending ==
    [active |-> FALSE, silent |-> FALSE,
     request |-> RecommendRequest([threat_id |-> "", additional_info |-> None],
                                  FALSE)]

\* No text has been put to the classifier on its own.
NoProbe == [text |-> <<>>, ran |-> FALSE, result |-> FALSE]

\* The processes that open logs/audit.log: the server answering requests and
\* the script run as `python main.py --batch data.csv`.
Writers == {"server", "cli"}

\* Lines the two processes have logged or are about to log.
LinesInHand ==
    Len(writers["server"].queue) + Len(writers["server"].handed)
        + Len(writers["cli"].queue) + Len(writers["cli"].handed)

\* No process has anything to log or has logged anything.
NoWriters == [w \in Writers |-> [queue |-> <<>>, handed |-> <<>>]]

\* The record kept of one call of recommend: who called, the request, the
\* backend outcome, the fault met by the orchestrator after the call, the
\* result, and the range of audit lines the call logged.
Call(mode, request, gen, fault, r, from) ==
    [mode |-> mode, threat_id |-> request.threat.threat_id,
     confirm |-> request.confirm,
     prompt_ok |-> _generate_prompt(request.threat).ok,
     backend_calls |-> BackendCalls(_generate_prompt(request.threat), gen),
     gen |-> TryOutcome(_generate_prompt(request.threat), gen),
     fault |-> fault,
     status |-> r.status, classified |-> r.classified,
     destructive |-> r.destructive,
     body |-> r.body, detail |-> r.detail,
     logFrom |-> from, logTo |-> from + Len(r.msgs)]

\* Threats of single-item requests: one id is enough there, the gate only
\* copies it.  Batch requests draw each threat from both ids, so that ids
\* repeat and differ within one request.
SingleThreats == {t \in Threat : t.threat_id = "malware-001"}
BatchInputs == UNION {[1..n -> Threat] : n \in 0..MaxBatch}

Init ==
    /\ auditLog = <<>>
    /\ calls = <<>>
    /\ diskOk = TRUE
    /\ pc = "idle"
    /\ threats = <<>>
    /\ i = 0
    /\ report_entries = <<>>
    /\ pending = NoPending
    /\ probe = NoProbe
    /\ writers = NoWriters

\* Variant: the gate keeps the denials it has issued and takes a repeated
\* request for a denied threat as the caller's confirmation.
RecommendEffect_remembers(request, gen) ==
    LET denied == \E k \in 1..Len(calls) :
                      /\ calls[k].threat_id = request.threat.threat_id
                      /\ calls[k].status = 400
        r == recommend(RecommendRequest(request.threat,
                                        request.confirm \/ denied), gen)
    IN  /\ auditLog' = logger_emit(auditLog, r.msgs, diskOk)
        /\ calls' = Append(calls,
                           Call("single", request, gen, "", r, Len(auditLog)))

\* What one run of recommend does to the audit log and the record of calls.
RecommendEffect(request, gen) ==
    LET r == recommend(request, gen)
    IN  /\ auditLog' = logger_emit(auditLog, r.msgs, diskOk)
        /\ calls' = Append(calls,
                           Call("single", request, gen, "", r, Len(auditLog)))

\* What one iteration of the batch loop does.
BatchItemEffect(gen, fault) ==
    LET threat == threats[i]
        it == batch_item(threat, gen, fault)
    IN  /\ auditLog' = logger_emit(auditLog, it.gate.msgs \o it.msgs, diskOk)
        /\ calls' = Append(calls,
                           Call("batch", RecommendRequest(threat, BatchConfirm),
                                gen, fault, it.gate, Len(auditLog)))
        /\ report_entries' = Append(report_entries, it.entry)
        /\ i' = NextItem(i, Len(threats), it.entry # it.gate.body)

\* POST /recommend: one single-item decision attempt.
PostRecommend(threat, confirm, gen) ==
    /\ pc = "idle"
    /\ Len(calls) < MaxAttempts
    /\ RecommendEffect(RecommendRequest(threat, confirm), gen)
    /\ UNCHANGED <<diskOk, pc, threats, i, report_entries, pending, probe, writers>>

\* POST /batch: the request arrives and the loop starts.
PostBatch(ts) ==
    /\ pc = "idle"
    /\ Len(calls) + Len(ts) <= MaxAttempts
    /\ pc' = "batch"
    /\ threats' = ts
    /\ i' = 1
    /\ report_entries' = <<>>
    /\ UNCHANGED <<auditLog, calls, diskOk, pending, probe, writers>>

\* One iteration of the batch loop.
BatchLoop(gen, fault) ==
    /\ pc = "batch"
    /\ i <= Len(threats)
    /\ BatchItemEffect(gen, fault)
    /\ UNCHANGED <<diskOk, pc, threats, pending, probe, writers>>

\* return BatchResponse(report=report_entries): the loop is over, the report
\* goes to the caller as it stands and the locals are gone.
BatchReturn ==
    /\ pc = "batch"
    /\ i > Len(threats)
    /\ pc' = "idle"
    /\ threats' = <<>>
    /\ i' = 0
    /\ report_entries' = <<>>
    /\ UNCHANGED <<auditLog, calls, diskOk, pending, probe, writers>>

\* The log device stops accepting writes (disk full, file system read-only).
DiskFull ==
    /\ diskOk
    /\ diskOk' = FALSE
    /\ UNCHANGED <<auditLog, calls, pc, threats, i, report_entries, pending,
                   probe, writers>>

Next ==
    \/ \E threat \in SingleThreats, confirm \in BOOLEAN, gen \in GenOutcomes :
           PostRecommend(threat, confirm, gen)
    \/ \E ts \in BatchInputs : PostBatch(ts)
    \/ \E gen \in GenOutcomes, fault \in Faults : BatchLoop(gen, fault)
    \/ BatchReturn

\* The service with a log device that accepts every write.
Spec == Init /\ [][Next]_vars

\* The service with a log device that can stop accepting writes.
NextDisk ==
    \/ Next
    \/ DiskFull

SpecDisk == Init /\ [][NextDisk]_vars

\* The service handed Threat objects built in Python (recommend and batch
\* called as functions), whose additional_info may be unserializable.
DirectSingleThreats == {t \in DirectThreat : t.threat_id = "malware-001"}
DirectBatchThreats == {t \in DirectThreat : t.threat_id = "malware-002"}
DirectBatchInputs == UNION {[1..n -> DirectBatchThreats] : n \in 0..MaxBatch}

NextInput ==
    \/ \E threat \in DirectSingleThreats, confirm \in BOOLEAN, gen \in GenOutcomes :
           PostRecommend(threat, confirm, gen)
    \/ \E ts \in DirectBatchInputs : PostBatch(ts)
    \/ \E gen \in GenOutcomes, fault \in Faults : BatchLoop(gen, fault)
    \/ BatchReturn

SpecInput == Init /\ [][NextInput]_vars

\* The service with the backend call as a step of its own: a handler issues
\* the call and waits; the backend answers (content or exception), or stays
\* silent for ever.  The client is built without a timeout and the call is
\* made without one, so nothing ends the wait on a silent backend, and the
\* waiting handler, being synchronous, holds the event loop.

\* recommend, called for POST /recommend, reaches the backend call.
LiveRecommend(threat, confirm) ==
    /\ pc = "idle"
    /\ Len(calls) < MaxAttempts
    /\ pc' = "recommend"
    /\ pending' = [active |-> TRUE, silent |-> FALSE,
                   request |-> RecommendRequest(threat, confirm)]
    /\ UNCHANGED <<auditLog, calls, diskOk, threats, i, report_entries, probe, writers>>

\* recommend, called by the batch loop for threats[i], reaches the backend call.
LiveBatchItem ==
    /\ pc = "batch"
    /\ i <= Len(threats)
    /\ ~pending.active
    /\ pending' = [active |-> TRUE, silent |-> FALSE,
                   request |-> RecommendRequest(threats[i], BatchConfirm)]
    /\ UNCHANGED <<auditLog, calls, diskOk, pc, threats, i, report_entries,
                   probe, writers>>

\* The backend call returns or raises, and the handler runs on to its end.
BackendAnswers(gen, fault) ==
    /\ pending.active
    /\ ~pending.silent
    /\ IF pc = "recommend"
       THEN /\ RecommendEffect(pending.request, gen)
            /\ pc' = "idle"
            /\ UNCHANGED <<threats, i, report_entries>>
       ELSE /\ BatchItemEffect(gen, fault)
            /\ UNCHANGED <<pc, threats>>
    /\ pending' = NoPending
    /\ UNCHANGED <<diskOk, probe, writers>>

\* The backend will never answer this call.
BackendSilent ==
    /\ pending.active
    /\ ~pending.silent
    /\ pending' = [pending EXCEPT !.silent = TRUE]
    /\ UNCHANGED <<auditLog, calls, diskOk, pc, threats, i, report_entries,
                   probe, writers>>

\* Batch requests here draw their threats from one id.
LiveBatchThreats == {t \in Threat : t.threat_id = "malware-002"}
LiveBatchInputs == UNION {[1..n -> LiveBatchThreats] : n \in 0..MaxBatch}

NextLive ==
    \/ \E threat \in SingleThreats, confirm \in BOOLEAN :
           LiveRecommend(threat, confirm)
    \/ \E ts \in LiveBatchInputs : PostBatch(ts)
    \/ LiveBatchItem
    \/ \E gen \in GenOutcomes, fault \in Faults : BackendAnswers(gen, fault)
    \/ BackendSilent
    \/ BatchReturn

\* The handlers' own steps are taken when they can be, and a backend that
\* is not silent answers.
SpecLive ==
    /\ Init
    /\ [][NextLive]_vars
    /\ WF_vars(LiveBatchItem)
    /\ WF_vars(BatchReturn)
    /\ WF_vars(\E gen \in GenOutcomes, fault \in Faults : BackendAnswers(gen, fault))

\* Two processes appending to the same logs/audit.log: the server, which
\* answers POST /recommend, and the script, which runs a batch through its
\* own copy of the application.  Each has its own FileHandler on the file,
\* opened with mode "a"; a logger call formats one whole line and hands it
\* to the handler, which writes it under its lock with one write and a
\* flush.  The processes interleave between logger calls in any order.

\* The server runs recommend for a request: the lines it will log, in order.
ServerBegins(threat, confirm, gen) ==
    LET r == recommend(RecommendRequest(threat, confirm), gen)
    IN  /\ writers["server"].queue = <<>>
        /\ LinesInHand + Len(r.msgs) <= MaxLines
        /\ writers' = [writers EXCEPT !["server"].queue = r.msgs]
        /\ UNCHANGED <<auditLog, calls, diskOk, pc, threats, i, report_entries,
                       pending, probe>>

\* The script's batch loop runs one iteration: the lines it will log.
CliBegins(threat, gen, fault) ==
    LET it == batch_item(threat, gen, fault)
    IN  /\ writers["cli"].queue = <<>>
        /\ LinesInHand + Len(it.gate.msgs \o it.msgs) <= MaxLines
        /\ writers' = [writers EXCEPT !["cli"].queue = it.gate.msgs \o it.msgs]
        /\ UNCHANGED <<auditLog, calls, diskOk, pc, threats, i, report_entries,
                       pending, probe>>

\* Process w makes its next logger call.
WriterLogs(w) ==
    /\ writers[w].queue # <<>>
    /\ auditLog' = logger_emit(auditLog, <<Head(writers[w].queue)>>, diskOk)
    /\ writers' = [writers EXCEPT
                      ![w].queue = Tail(writers[w].queue),
                      ![w].handed = Append(writers[w].handed,
                                           Head(writers[w].queue))]
    /\ UNCHANGED <<calls, diskOk, pc, threats, i, report_entries, pending,
                   probe>>

\* The server is asked about one threat id and the script about the other.
ServerThreats == {t \in Threat : t.threat_id = "malware-001"}
CliThreats == {t \in Threat : t.threat_id = "malware-002"}

NextConc ==
    \/ \E threat \in ServerThreats, confirm \in BOOLEAN, gen \in GenOutcomes :
           ServerBegins(threat, confirm, gen)
    \/ \E threat \in CliThreats, gen \in GenOutcomes, fault \in Faults :
           CliBegins(threat, gen, fault)
    \/ \E w \in Writers : WriterLogs(w)

SpecConc == Init /\ [][NextConc]_vars

\* The classifier on its own: a text is chosen, then _is_destructive is
\* applied to it once.

\* What the texts are made of: the vocabulary in several cases, words that
\* contain a vocabulary word or none, punctuation, and whitespace.
Pieces ==
    { <<"k", "i", "l", "l">>, <<"K", "i", "l", "l">>, <<"K", "I", "L", "L">>,
      <<"d", "e", "l", "e", "t", "e">>, <<"R", "e", "m", "o", "v", "e">>,
      <<"u", "n", "i", "n", "s", "t", "a", "l", "l">>,
      <<"E", "R", "A", "S", "E">>, <<"s", "c", "a", "n">>,
      <<"s">>, <<".">>, <<" ">>, <<"\n">>, <<"\t">> }

\* The pieces of ps written one after the other.
RECURSIVE Concat(_)
Concat(ps) == IF ps = <<>> THEN <<>> ELSE Head(ps) \o Concat(Tail(ps))

ProbeTexts == {Concat(ps) : ps \in UNION {[1..n -> Pieces] : n \in 0..MaxPieces}}

InitClassifier ==
    /\ auditLog = <<>>
    /\ calls = <<>>
    /\ diskOk = TRUE
    /\ pc = "idle"
    /\ threats = <<>>
    /\ i = 0
    /\ report_entries = <<>>
    /\ pending = NoPending
    /\ probe \in {[text |-> t, ran |-> FALSE, result |-> FALSE] : t \in ProbeTexts}
    /\ writers = NoWriters

\* destructive = _is_destructive(recommendation)
Classify ==
    /\ ~probe.ran
    /\ probe' = [probe EXCEPT !.ran = TRUE, !.result = _is_destructive(probe.text)]
    /\ UNCHANGED <<auditLog, calls, diskOk, pc, threats, i, report_entries,
                   pending, writers>>

NextClassifier == Classify

SpecClassifier == InitClassifier /\ [][NextClassifier]_vars

\* ---------------------------------------------------------------- helpers
\* Positions in auditLog of the lines logged by call c.
CallLines(c) == (c.logFrom + 1)..c.logTo

\* Positions of the DecisionRecords (_log_recommendation entries) of call c.
CallEntries(c) == {j \in CallLines(c) : IsEntry(auditLog[j])}

\* The classifier ran in call c and flagged, or did not flag, the text.
ClassifiedDestructive(c) == c.classified /\ c.destructive
ClassifiedSafe(c) == c.classified /\ ~c.destructive

\* _ask_confirmation was consulted during call c.
Asked(c) == \E j \in CallLines(c) : auditLog[j].msg.kind = "ask_confirmation"

SingleCalls == {k \in 1..Len(calls) : calls[k].mode = "single"}
BatchCalls == {k \in 1..Len(calls) : calls[k].mode = "batch"}

\* While the batch loop runs, the call made for entry k of the report: the
\* loop's calls are the last ones made, one per entry.
SlotCall(k) == calls[Len(calls) - Len(report_entries) + k]

\* The loop is over and `return BatchResponse(report=report_entries)` is next.
AtReturn == pc = "batch" /\ i > Len(threats)

NonEmptyNote(n) == n # None /\ n # ""

\* ----------------------------------------------------------------- claims
\* C1: every DecisionRecord logged or returned with approved = TRUE has
\* destructive = FALSE or comes from a call whose request had confirm = TRUE,
\* over all sequences of single-item and batch calls.
C1_ApprovedImpliesSafeOrConfirmed ==
    /\ \A j \in 1..Len(auditLog) :
          (IsEntry(auditLog[j]) /\ auditLog[j].msg.approved
               /\ auditLog[j].msg.destructive)
              => \E k \in 1..Len(calls) :
                     j \in CallLines(calls[k]) /\ calls[k].confirm
    /\ \A k \in 1..Len(calls) :
          (calls[k].status = 200 /\ calls[k].body.approved
               /\ calls[k].body.destructive)
              => calls[k].confirm

\* An approved destructive record, logged and returned for a confirmed
\* single-item request, next to a batch call on a destructive text.
C1_Witness ==
    /\ \E k \in SingleCalls :
          /\ calls[k].confirm /\ calls[k].status = 200
          /\ calls[k].body.approved /\ calls[k].body.destructive
          /\ \E j \in CallEntries(calls[k]) :
                auditLog[j].msg.approved /\ auditLog[j].msg.destructive
    /\ \E k \in BatchCalls : ClassifiedDestructive(calls[k])

\* C2: a single-item call whose text is classified destructive and whose
\* request has confirm = FALSE is denied: a record with its threat_id,
\* destructive = TRUE, approved = FALSE and a non-empty note is logged, the
\* caller gets HTTP 400, and no approved record is logged or returned.
C2_UnconfirmedDestructiveDenied ==
    \A k \in SingleCalls :
        (ClassifiedDestructive(calls[k]) /\ ~calls[k].confirm)
            => /\ calls[k].status = 400
               /\ \E j \in CallEntries(calls[k]) :
                     /\ auditLog[j].msg.threat_id = calls[k].threat_id
                     /\ auditLog[j].msg.destructive
                     /\ ~auditLog[j].msg.approved
                     /\ NonEmptyNote(auditLog[j].msg.notes)
               /\ \A j \in CallEntries(calls[k]) : ~auditLog[j].msg.approved
               /\ ~calls[k].body.approved

C2_Witness ==
    \E k \in SingleCalls :
        /\ ClassifiedDestructive(calls[k]) /\ ~calls[k].confirm
        /\ calls[k].status = 400
        /\ \E j \in CallEntries(calls[k]) : auditLog[j].msg.notes = DenialNotes

\* C3 (as claimed): the number of DecisionRecords in the audit log equals the
\* number of decision attempts, and an attempt whose generation failed has a
\* record with destructive = FALSE, approved = FALSE and the reason as notes.
C3_OneRecordPerAttempt ==
    /\ Cardinality({j \in 1..Len(auditLog) : IsEntry(auditLog[j])}) = Len(calls)
    /\ \A k \in 1..Len(calls) :
          ~calls[k].gen.ok
              => \E j \in CallEntries(calls[k]) :
                     /\ ~auditLog[j].msg.destructive
                     /\ ~auditLog[j].msg.approved
                     /\ NonEmptyNote(auditLog[j].msg.notes)

\* C4: the batch orchestrator submits every item with confirm = FALSE, and
\* for an item whose text is classified destructive neither its audit record
\* nor its report entry has approved = TRUE.
C4_BatchNeverApprovesDestructive ==
    /\ \A k \in BatchCalls :
          /\ ~calls[k].confirm
          /\ ClassifiedDestructive(calls[k])
                => /\ \A j \in CallEntries(calls[k]) : ~auditLog[j].msg.approved
                   /\ calls[k].status # 200
    /\ pc = "batch"
          => \A k \in 1..Len(report_entries) :
                 ClassifiedDestructive(SlotCall(k)) => ~report_entries[k].approved

\* A finished batch report holding an item with destructive text, which the
\* single-item gate approves when called with confirm = TRUE.
C4_Witness ==
    /\ AtReturn
    /\ \E k \in 1..Len(report_entries) :
          /\ ClassifiedDestructive(SlotCall(k))
          /\ ~report_entries[k].approved
          /\ recommend(RecommendRequest(threats[k], TRUE),
                       SlotCall(k).gen).body.approved

\* C5: the batch report has the length of the input and entry k carries the
\* threat_id of input k, for every per-item outcome and with repeated ids.
C5_ReportMatchesInput ==
    pc = "batch"
        => /\ Len(report_entries) = i - 1
           /\ AtReturn => Len(report_entries) = Len(threats)
           /\ \A k \in 1..Len(report_entries) :
                 k <= Len(threats)
                     /\ report_entries[k].threat_id = threats[k].threat_id

\* A finished report of three entries for an input that repeats a threat_id
\* and has a denied, a failed and an approved item.
C5_Witness ==
    /\ AtReturn
    /\ Len(threats) = 3
    /\ Len(report_entries) = 3
    /\ threats[1].threat_id = threats[3].threat_id
    /\ threats[1].threat_id # threats[2].threat_id
    /\ \E k \in 1..3 : SlotCall(k).status = 400
    /\ \E k \in 1..3 : SlotCall(k).status = 500
    /\ \E k \in 1..3 : SlotCall(k).status = 200

\* The item of entry k ended in an error.
SlotFailed(k) == SlotCall(k).status # 200 \/ SlotCall(k).fault # ""

\* C6: an item that ends in an error (400, 500 or another exception) gets a
\* placeholder with approved = FALSE and a non-empty note, the loop goes on
\* to the next item, every item that did not fail gets the gate's response
\* whatever happened to the others, and the batch never returns early.
C6_FailureIsolation ==
    pc = "batch"
        => /\ i = Len(report_entries) + 1
           /\ i <= Len(threats) + 1
           /\ Len(report_entries) <= Len(calls)
           /\ \A k \in 1..(i - 1) :
                 /\ SlotCall(k).mode = "batch"
                 /\ SlotCall(k).threat_id = threats[k].threat_id
                 /\ SlotFailed(k)
                       => /\ ~report_entries[k].approved
                          /\ NonEmptyNote(report_entries[k].notes)
                 /\ ~SlotFailed(k) => report_entries[k] = SlotCall(k).body

\* A finished batch of three where item 2's backend timed out and items 1 and
\* 3 were processed normally.
C6_Witness ==
    /\ AtReturn
    /\ Len(threats) = 3
    /\ Len(report_entries) = 3
    /\ ~SlotCall(2).gen.ok /\ SlotCall(2).gen.exc = "timed out"
    /\ ~report_entries[2].approved
    /\ report_entries[2].notes = "Failed: Model generation failed: timed out"
    /\ ~SlotFailed(1) /\ report_entries[1].approved
    /\ ~SlotFailed(3) /\ report_entries[3].approved

\* C7 (as claimed): whenever the gate has returned for an attempt, by a
\* response or by an error, that attempt's DecisionRecord is in the audit log.
C7_LoggedBeforeReturn ==
    \A k \in 1..Len(calls) :
        \E j \in CallEntries(calls[k]) :
            auditLog[j].msg.threat_id = calls[k].threat_id

\* C8 (as claimed): when the audit-log append of a decision fails, the gate
\* does not return that decision as approved.
C8_NoApprovalWithoutAuditWrite ==
    \A k \in 1..Len(calls) :
        (\E j \in CallEntries(calls[k]) : ~auditLog[j].written)
            => ~(calls[k].status = 200 /\ calls[k].body.approved)

\* C9: a single-item call whose text is classified non-destructive returns
\* and logs a record with approved = TRUE and no confirmation is asked or
\* refused, whatever the confirm flag.
C9_SafeAlwaysApproved ==
    \A k \in SingleCalls :
        ClassifiedSafe(calls[k])
            => /\ calls[k].status = 200
               /\ calls[k].body.approved
               /\ ~calls[k].body.destructive
               /\ calls[k].body.threat_id = calls[k].threat_id
               /\ \E j \in CallEntries(calls[k]) :
                     Entry(auditLog[j]) = calls[k].body
               /\ ~Asked(calls[k])

\* Two approved single-item calls on a non-destructive text, one with and one
\* without the confirm flag.
C9_Witness ==
    \E k1, k2 \in SingleCalls :
        /\ ClassifiedSafe(calls[k1]) /\ calls[k1].confirm
        /\ ClassifiedSafe(calls[k2]) /\ ~calls[k2].confirm
        /\ calls[k1].body.approved /\ calls[k2].body.approved

\* C10: a single-item call whose text is classified destructive and whose
\* request has confirm = TRUE returns a record with destructive = TRUE and
\* approved = TRUE, logs that same record, and never consults
\* _ask_confirmation nor raises 400.
C10_ConfirmedDestructiveApproved ==
    \A k \in SingleCalls :
        (ClassifiedDestructive(calls[k]) /\ calls[k].confirm)
            => /\ calls[k].status = 200
               /\ calls[k].body.destructive
               /\ calls[k].body.approved
               /\ calls[k].body.threat_id = calls[k].threat_id
               /\ CallEntries(calls[k]) # {}
               /\ \A j \in CallEntries(calls[k]) :
                     Entry(auditLog[j]) = calls[k].body
               /\ ~Asked(calls[k])

C10_Witness ==
    \E k \in SingleCalls :
        /\ ClassifiedDestructive(calls[k]) /\ calls[k].confirm
        /\ calls[k].status = 200
        /\ calls[k].body.recommendation = <<"K", "i", "l", "l", " ", "i", "t">>

\* The kinds of error of the single-item endpoint.
InputError(c) == ~c.prompt_ok
GenerationError(c) == c.prompt_ok /\ ~c.gen.ok
ConfirmationRequired(c) == ClassifiedDestructive(c) /\ ~c.confirm

\* C11 (as claimed): the single-item endpoint answers an input error and a
\* missing confirmation with client errors (4xx) and a backend failure with
\* a server error (5xx), the three kinds are told apart by the response, and
\* an input error is never reported as a generation failure.
C11_ErrorKindsDistinguished ==
    /\ \A k \in SingleCalls :
          /\ InputError(calls[k])
                => /\ calls[k].status \in 400..499
                   /\ calls[k].detail # "Model generation failed: " \o calls[k].gen.exc
          /\ GenerationError(calls[k]) => calls[k].status \in 500..599
          /\ ConfirmationRequired(calls[k]) => calls[k].status \in 400..499
    /\ \A k1, k2 \in SingleCalls :
          (InputError(calls[k1]) /\ ConfirmationRequired(calls[k2]))
              => calls[k1].detail # calls[k2].detail

\* C12 (as claimed): no decision attempt blocks forever: while a single-item
\* call or a batch is under way, also with a backend that will never answer,
\* some step that takes the handler on (a timeout expiring, at the latest) can
\* be taken.
C12_AttemptNeverBlocked == (pc # "idle") => ENABLED NextLive

\* The report entry the batch appends for an item whose call of recommend
\* raised HTTP 500 with the exception text exc.
FailedEntry(threat_id, exc) ==
    Placeholder(threat_id, "Failed: Model generation failed: " \o exc)

\* C13: when the backend call or the prompt construction raises, the
\* classifier is not run for that attempt, no record with approved = TRUE is
\* logged or returned for it, the call ends with HTTP 500, and in a batch the
\* entry appended for the item is the placeholder carrying the failure.
C13_GenerationFailureAborts ==
    /\ \A k \in 1..Len(calls) :
          ~calls[k].gen.ok
              => /\ ~calls[k].classified
                 /\ calls[k].status = 500
                 /\ ~calls[k].body.approved
                 /\ \A j \in CallLines(calls[k]) :
                       ~IsEntry(auditLog[j]) /\ ~auditLog[j].msg.approved
    /\ pc = "batch"
          => \A k \in 1..Len(report_entries) :
                 ~SlotCall(k).gen.ok
                     => report_entries[k]
                            = FailedEntry(threats[k].threat_id, SlotCall(k).gen.exc)

\* A single-item call whose backend call raised, one whose prompt
\* construction raised, and a batch whose report holds a placeholder for a
\* failed item next to an entry for an item that went through.
C13_Witness ==
    /\ \E k \in SingleCalls :
          calls[k].prompt_ok /\ ~calls[k].gen.ok /\ calls[k].status = 500
    /\ \E k \in 1..Len(calls) : ~calls[k].prompt_ok /\ calls[k].status = 500
    /\ pc = "batch"
    /\ \E k1, k2 \in 1..Len(report_entries) :
          /\ ~SlotCall(k1).gen.ok
          /\ report_entries[k1].notes
                 = "Failed: Model generation failed: " \o SlotCall(k1).gen.exc
          /\ SlotCall(k2).gen.ok

\* Backend calls issued for the first n entries of the report being built.
RECURSIVE SlotBackendCalls(_)
SlotBackendCalls(n) ==
    IF n = 0 THEN 0 ELSE SlotBackendCalls(n - 1) + SlotCall(n).backend_calls

\* C14 (as claimed): every decision attempt issues exactly one backend call,
\* whatever its outcome, and a batch of N threats issues exactly N.
C14_ExactlyOneBackendCall ==
    /\ \A k \in 1..Len(calls) : calls[k].backend_calls = 1
    /\ AtReturn => SlotBackendCalls(Len(report_entries)) = Len(threats)

\* C14 (amended): an attempt issues at most one backend call: one when the
\* prompt was built, whatever the call's outcome, and none when the prompt
\* construction raised.  The batch submits each threat once, in order, so a
\* batch of N threats makes N attempts and at most N backend calls.
C14_AtMostOneBackendCall ==
    /\ \A k \in 1..Len(calls) :
          /\ calls[k].backend_calls <= 1
          /\ calls[k].prompt_ok => calls[k].backend_calls = 1
          /\ ~calls[k].prompt_ok => calls[k].backend_calls = 0
    /\ pc = "batch"
          => /\ Len(report_entries) = i - 1
             /\ Len(report_entries) <= Len(threats)
             /\ \A k \in 1..Len(report_entries) :
                   SlotCall(k).mode = "batch"
                       /\ SlotCall(k).threat_id = threats[k].threat_id
             /\ SlotBackendCalls(Len(report_entries)) <= Len(report_entries)

\* A batch at its return after a failed item, a denied item and an item
\* whose prompt construction raised: three attempts, two backend calls.
C14_Witness ==
    /\ AtReturn
    /\ Len(threats) = 3
    /\ \E k \in 1..3 : SlotCall(k).prompt_ok /\ ~SlotCall(k).gen.ok
    /\ \E k \in 1..3 : SlotCall(k).status = 400
    /\ \E k \in 1..3 : ~SlotCall(k).prompt_ok
    /\ SlotBackendCalls(3) = 2

\* The id the requests put to process w carry.
WriterId(w) == IF w = "server" THEN "malware-001" ELSE "malware-002"

\* The messages of the audit log's lines that carry id, in log order.
RECURSIVE MsgsOf(_, _)
MsgsOf(log, id) ==
    IF log = <<>> THEN <<>>
    ELSE IF Head(log).msg.threat_id = id
         THEN <<Head(log).msg>> \o MsgsOf(Tail(log), id)
         ELSE MsgsOf(Tail(log), id)

CallMsgs(c) == [j \in 1..(c.logTo - c.logFrom) |-> auditLog[c.logFrom + j].msg]

\* Calls k1 and k2 were given the same threat record, the same confirm flag
\* and the same outcome of the backend call (the same generated text).
SameInputs(k1, k2) ==
    /\ calls[k1].threat_id = calls[k2].threat_id
    /\ calls[k1].prompt_ok = calls[k2].prompt_ok
    /\ calls[k1].confirm = calls[k2].confirm
    /\ calls[k1].gen = calls[k2].gen

C17_ReportCopiesLoggedRecord ==
    pc = "batch"
        => \A k \in 1..Len(report_entries) :
               /\ \A j \in CallEntries(SlotCall(k)) :
                     /\ report_entries[k].threat_id = auditLog[j].msg.threat_id
                     /\ report_entries[k].recommendation
                            = auditLog[j].msg.recommendation
                     /\ report_entries[k].destructive = auditLog[j].msg.destructive
                     /\ report_entries[k].approved = auditLog[j].msg.approved
               /\ (ClassifiedDestructive(SlotCall(k)) /\ SlotCall(k).status = 400)
                     => /\ report_entries[k].destructive
                        /\ report_entries[k].recommendation
                               = str_strip(SlotCall(k).gen.content)

\* The vocabulary the claim lists.
ClaimedVocabulary ==
    { <<"d", "e", "l", "e", "t", "e">>, <<"r", "e", "m", "o", "v", "e">>,
      <<"k", "i", "l", "l">>, <<"u", "n", "i", "n", "s", "t", "a", "l", "l">>,
      <<"e", "r", "a", "s", "e">> }

\* Positions a..b of text t hold a whitespace-delimited token: a longest run
\* of characters that are not whitespace.
IsToken(t, a, b) ==
    /\ a <= b
    /\ \A k \in a..b : t[k] \notin Whitespace
    /\ a = 1 \/ t[a - 1] \in Whitespace
    /\ b = Len(t) \/ t[b + 1] \in Whitespace

\* Some token of t, lowercased character by character, is a vocabulary word.
HasVocabularyToken(t) ==
    \E a, b \in 1..Len(t) :
        /\ IsToken(t, a, b)
        /\ [k \in 1..(b - a + 1) |-> LowerChar(t[a + k - 1])] \in ClaimedVocabulary

\* C18: for every text the classifier answers TRUE or FALSE, and TRUE exactly
\* when some whitespace-delimited token of the text, lowercased, is one of
\* delete, remove, kill, uninstall, erase; so FALSE for the empty text, for
\* whitespace alone, and for a token that only contains a vocabulary word.
C18_TokenSetMembership ==
    probe.ran
        => /\ probe.result \in BOOLEAN
           /\ probe.result <=> HasVocabularyToken(probe.text)
           /\ (\A k \in 1..Len(probe.text) : probe.text[k] \in Whitespace)
                  => ~probe.result

\* The classifier has answered TRUE for "KILL", a newline and "scan".
C18_Witness ==
    /\ probe.ran
    /\ probe.text = <<"K", "I", "L", "L", "\n", "s", "c", "a", "n">>
    /\ probe.result

====
